---- MODULE Spec2Model ----
(***************************************************************************)
(* Model of the launch-session supervisor of LiquidLauncher                *)
(* (src/src/app/gui.rs): the EventHandler's session slot and task handle,  *)
(* the script handlers run_client / terminate / get_branches / get_builds  *)
(* / login_mojang, the background session task, and the EventBridge       *)
(* emission functions handle_stdout / handle_stderr / handle_progress;     *)
(* and of ModSource::get_path (src/src/cloud.rs).                          *)
(***************************************************************************)
EXTENDS Integers, Sequences, FiniteSets, TLC

\* ------------------------------------------------------------------ bounds
\* Number of sessions (accepted run_client calls) explored.
MaxSessions == 2

\* Number of get_branches / get_builds / login_mojang requests explored.
MaxQueries == 1

\* Number of EventBridge emissions explored per session.
MaxEmits == 2

\* Number of get_path calls explored on one ModSource.
MaxResolves == 2

\* Longest artifact coordinate enumerated, in characters.
MaxArtifactLen == 5

\* Session ids; 0 stands for None in the Option-typed fields.
Sessions == 1..MaxSessions
None == 0

\* The contexts that call the handlers: the script thread sciter dispatches on,
\* and a second one for the calls that overlap a call of the first.
Callers == {"ui", "other"}

\* build_id arguments tried, and the build lists the catalog may return.
BuildIds == {7, 42}
Build(id) == [build_id |-> id, branch |-> "nightly"]
BuildLists == {<<>>, <<Build(7)>>, <<Build(9), Build(7)>>}

\* sciter values passed by the script: a string, a number, undefined.
StrValue(s) == [t |-> "string", v |-> s]
IntValue(n) == [t |-> "int", n |-> n]
Undefined == [t |-> "undefined"]

\* account_data: a script map from the identity fields it carries to values.
IdentityFields == {"username", "id", "accessToken", "type"}
Supplied ==
    [username |-> "Steve", id |-> "7a1e", accessToken |-> "token", type |-> "mojang"]
FieldValues(f) == {StrValue(Supplied[f]), IntValue(0)}
AccountsOver(S) ==
    {a \in [S -> UNION {FieldValues(f) : f \in S}] : \A f \in S : a[f] \in FieldValues(f)}
AccountDatas == UNION {AccountsOver(S) : S \in SUBSET IdentityFields}
FullAccount == [f \in IdentityFields |-> StrValue(Supplied[f])]
NoAccount == [f \in {} |-> Undefined]

\* The arguments of a run_client call live until the call returns.
NoArg == [build_id |-> 0, account_data |-> NoAccount]

\* Value::get_item(key): the value under key, undefined when there is none.
get_item(value, key) == IF key \in DOMAIN value THEN value[key] ELSE Undefined

\* Value::as_string(): Some(text) for a string value, None for any other.
Some(x) == [some |-> TRUE, v |-> x]
NoneOpt == [some |-> FALSE, v |-> ""]
\* Faulty variant of as_string: a number is rendered as text instead of None.
as_string_lossy(value) ==
    IF value.t = "undefined" THEN NoneOpt
    ELSE Some(IF value.t = "string" THEN value.v ELSE "0")
as_string(value) == IF value.t = "string" THEN Some(value.v) ELSE NoneOpt
unwrap_or_else(opt, default) == IF opt.some THEN opt.v ELSE default

\* gui.rs:86-93  the LaunchingParameter run_client builds from account_data
LaunchingParameter(account_data) ==
    [auth_player_name |->
        unwrap_or_else(as_string(get_item(account_data, "username")), "unexpected"),
     auth_uuid |->
        unwrap_or_else(as_string(get_item(account_data, "id")),
                       "069a79f4-44e9-4726-a5be-fca90e38aaf5"),
     auth_access_token |->
        unwrap_or_else(as_string(get_item(account_data, "accessToken")), "-"),
     auth_xuid |-> "x",
     clientid |-> "x",
     user_type |-> unwrap_or_else(as_string(get_item(account_data, "type")), "legacy")]

\* No LaunchingParameter built yet.
NoParameter ==
    [auth_player_name |-> "", auth_uuid |-> "", auth_access_token |-> "",
     auth_xuid |-> "", clientid |-> "", user_type |-> ""]

\* Texts are sequences of characters. cloud.rs:56-63: the two kinds of ModSource.
SkipAd(artifact_name, url, extract) ==
    [kind |-> "SkipAd", artifact_name |-> artifact_name, url |-> url, extract |-> extract,
     repository |-> <<>>, artifact |-> <<>>]
Repository(repository, artifact) ==
    [kind |-> "Repository", artifact_name |-> <<>>, url |-> <<>>, extract |-> FALSE,
     repository |-> repository, artifact |-> artifact]

\* The ModSources resolved: every coordinate over a three-letter alphabet up to
\* MaxArtifactLen characters, and a coordinate with a dotted group and version.
ArtifactNames == {<<>>, <<"m", "o", "d">>, <<"a", ".", "b">>}
Urls == {<<"u">>, <<"v">>}
Repositories == {<<"r">>, <<"s">>}
CoordinateChars == {"g", ".", ":"}
DottedCoordinate == <<"n", ".", "e", ":", "m", ":", "2", ".", "1">>
Artifacts ==
    UNION {[1..n -> CoordinateChars] : n \in 0..MaxArtifactLen} \cup {DottedCoordinate}
ModSources ==
    {SkipAd(n, u, e) : n \in ArtifactNames, u \in Urls, e \in BOOLEAN}
        \cup {Repository(r, a) : r \in Repositories, a \in Artifacts}

\* Exploration limits; sessions are started with the full account unless a
\* specification widens the accounts, the handlers are called one at a time
\* unless a specification adds a caller, and no ModSource is resolved unless a
\* specification asks for it.
Lim(sessions, queries, emits) ==
    [sessions |-> sessions, queries |-> queries, emits |-> emits,
     accounts |-> {FullAccount}, callers |-> {"ui"},
     mods |-> {SkipAd(<<"m", "o", "d">>, <<"u">>, FALSE)}, resolves |-> 0]

\* Error texts (err.to_string()) of the catalog and of the launch procedure.
CatalogErrText == "catalog error"
LaunchErrText == "launch error"
NotFoundText == "unable to find build"

VARIABLES
    runner_instance,  \* EventHandler.runner_instance: None or the session whose sender it holds
    join_handle,      \* EventHandler.join_handle: None or the session whose task it joins
    rlock,            \* holder of the runner_instance mutex
    jlock,            \* holder of the join_handle mutex
    pc,               \* per caller: position inside run_client / terminate
    arg,              \* per caller: [build_id, account_data] of the run_client call in progress
    cur,              \* per caller: session spawned by the run_client call in progress
    took,             \* per caller: session whose RunnerInstance terminate took (None if none)
    awaiting,         \* per caller: the JoinHandle terminate is awaiting
    ret,              \* per caller: the last call that returned and its value
    crashed,          \* a panic unwound out of a script handler
    nextId,           \* number of sessions created so far
    taskPc,           \* per session: position of the background task
    reqBuild,         \* per session: build_id captured by the task
    launching_parameter, \* per session: the LaunchingParameter captured by the task
    fetched,          \* per session: result of load_all_builds: [st: "pending" | "err" | "ok", builds]
    launchRes,        \* per session: result of prelauncher::launch ("none", "Ok", "Err")
    rxAlive,          \* per session: the oneshot receiver has not been dropped
    txState,          \* per session: "none", "live", "sent", "sendfail", "dropped"
    sent,             \* per session: number of cancellation signals delivered
    errLog,           \* per session: messages passed to on_error
    finCalls,         \* per session: invocations of on_finalization
    queries,          \* the spawned get_branches / get_builds / login_mojang tasks
    bridge,           \* per session: the EventFunctions mutex: [poisoned, out, prog]
    emits,            \* per session: [n: emissions made, last: what the last one gave its
                      \* caller, call: the last emission's handler and input]
    mod_source,       \* the ModSource whose path is resolved
    paths,            \* the results of the get_path calls made on mod_source
    cap               \* exploration limits: [sessions, queries, emits, accounts, callers,
                      \* mods, resolves]

supVars == <<runner_instance, join_handle, rlock, jlock, pc, arg, cur, took,
             awaiting, ret, crashed, nextId, taskPc, reqBuild,
             launching_parameter, fetched, launchRes, rxAlive, txState, sent, errLog, finCalls>>

envVars == <<queries, bridge, emits, mod_source, paths, cap>>

vars == <<supVars, envVars>>

\* ------------------------------------------------------------------ helpers
\* builds.iter().find(|x| x.build_id == build_id): index of the first match, 0 if none.
RECURSIVE FindFrom(_, _, _)
FindFrom(builds, id, i) ==
    IF i > Len(builds) THEN 0
    ELSE IF builds[i].build_id = id THEN i
    ELSE FindFrom(builds, id, i + 1)

FindBuild(builds, id) == FindFrom(builds, id, 1)

\* A finished task: its future has completed (normally or by panic).
Ended(s) == taskPc[s] \in {"done", "panicked"}

\* Outcome of Value::call(...).unwrap() inside a task: the task goes on, or panics.
AfterCall(ok, next) == IF ok THEN next ELSE "panicked"

\* ------------------------------------------------------------------ Init
\* The state gui_main builds (gui.rs:275): empty slot, no handle, nothing
\* spawned; lim bounds how many sessions, queries and emissions are explored
\* and which account_data the script passes.
InitWith(lim) ==
    /\ cap = lim
    /\ mod_source \in lim.mods
    /\ paths = <<>>
    /\ queries = <<>>
    /\ bridge = [s \in Sessions |-> [poisoned |-> FALSE, out |-> <<>>, prog |-> <<>>]]
    /\ emits = [s \in Sessions |->
                    [n |-> 0, last |-> "none",
                     call |-> [op |-> "none", data |-> <<>>, n |-> [hi |-> 0, lo |-> 0]]]]
    /\ runner_instance = None
    /\ join_handle = None
    /\ rlock = "free"
    /\ jlock = "free"
    /\ pc = [c \in Callers |-> "idle"]
    /\ arg = [c \in Callers |-> NoArg]
    /\ cur = [c \in Callers |-> None]
    /\ took = [c \in Callers |-> None]
    /\ awaiting = [c \in Callers |-> None]
    /\ ret = [c \in Callers |-> [op |-> "none", val |-> FALSE]]
    /\ crashed = FALSE
    /\ nextId = 0
    /\ taskPc = [s \in Sessions |-> "none"]
    /\ reqBuild = [s \in Sessions |-> 0]
    /\ launching_parameter = [s \in Sessions |-> NoParameter]
    /\ fetched = [s \in Sessions |-> [st |-> "pending", builds |-> <<>>]]
    /\ launchRes = [s \in Sessions |-> "none"]
    /\ rxAlive = [s \in Sessions |-> FALSE]
    /\ txState = [s \in Sessions |-> "none"]
    /\ sent = [s \in Sessions |-> 0]
    /\ errLog = [s \in Sessions |-> <<>>]
    /\ finCalls = [s \in Sessions |-> 0]

Init == InitWith(Lim(MaxSessions, 0, 0))

taskVars == <<taskPc, reqBuild, launching_parameter, fetched, launchRes, rxAlive, txState,
              sent, errLog, finCalls>>
callVars == <<pc, arg, cur, took, awaiting, ret>>

\* ------------------------------------------------------------------ run_client
\* gui.rs:77  block_on(self.runner_instance.lock())
RcLockRunner(c, build_id, account_data) ==
    /\ ~crashed
    /\ c \in cap.callers
    /\ pc[c] = "idle"
    /\ rlock = "free"
    /\ nextId < cap.sessions \/ runner_instance # None
    /\ rlock' = c
    /\ pc' = [pc EXCEPT ![c] = "rc_lock_join"]
    /\ arg' = [arg EXCEPT ![c] = [build_id |-> build_id, account_data |-> account_data]]
    /\ cur' = [cur EXCEPT ![c] = None]
    /\ UNCHANGED <<runner_instance, join_handle, jlock, took, awaiting, ret,
                   crashed, nextId, taskVars>>
    /\ UNCHANGED envVars

\* gui.rs:78  block_on(self.join_handle.lock())
RcLockJoin(c) ==
    /\ ~crashed
    /\ pc[c] = "rc_lock_join"
    /\ jlock = "free"
    /\ jlock' = c
    /\ pc' = [pc EXCEPT ![c] = "rc_check"]
    /\ UNCHANGED <<runner_instance, join_handle, rlock, arg, cur, took, awaiting, ret,
                   crashed, nextId, taskVars>>
    /\ UNCHANGED envVars

\* gui.rs:80-82  slot occupied: return true, dropping both guards and the arguments
RcAlreadyRunning(c) ==
    /\ ~crashed
    /\ pc[c] = "rc_check"
    /\ runner_instance # None
    /\ rlock' = "free"
    /\ jlock' = "free"
    /\ pc' = [pc EXCEPT ![c] = "idle"]
    /\ ret' = [ret EXCEPT ![c] = [op |-> "run_client", val |-> TRUE]]
    /\ arg' = [arg EXCEPT ![c] = NoArg]
    /\ UNCHANGED <<runner_instance, join_handle, cur, took, awaiting,
                   crashed, nextId, taskVars>>
    /\ UNCHANGED envVars

\* The channel creation and the spawn of gui.rs:84-97, whatever the slot holds.
SpawnSession(c) ==
    /\ ~crashed
    /\ pc[c] = "rc_check"
    /\ nextId < cap.sessions
    /\ LET s == nextId + 1 IN
        /\ nextId' = s
        /\ cur' = [cur EXCEPT ![c] = s]
        /\ taskPc' = [taskPc EXCEPT ![s] = "fetch"]
        /\ reqBuild' = [reqBuild EXCEPT ![s] = arg[c].build_id]
        /\ launching_parameter' =
                [launching_parameter EXCEPT ![s] = LaunchingParameter(arg[c].account_data)]
        /\ rxAlive' = [rxAlive EXCEPT ![s] = TRUE]
        /\ txState' = [txState EXCEPT ![s] = "live"]
    /\ pc' = [pc EXCEPT ![c] = "rc_install"]
    /\ UNCHANGED <<runner_instance, join_handle, rlock, jlock, arg, took, awaiting, ret,
                   crashed, fetched, launchRes, sent, errLog, finCalls>>
    /\ UNCHANGED envVars

\* Faulty variant of RcSpawn: the is_some() early return of gui.rs:80-82 is missing.
RcSpawnUnguarded(c) == SpawnSession(c)

\* gui.rs:80-97  slot empty: create the oneshot channel and spawn the task
RcSpawn(c) ==
    /\ runner_instance = None
    /\ SpawnSession(c)

\* Faulty variant of RcInstall: the JoinHandle of the new task is not stored
\* (gui.rs:135 missing).
RcInstallWithoutHandle(c) ==
    /\ ~crashed
    /\ pc[c] = "rc_install"
    /\ runner_instance' = cur[c]
    /\ rlock' = "free"
    /\ jlock' = "free"
    /\ pc' = [pc EXCEPT ![c] = "idle"]
    /\ ret' = [ret EXCEPT ![c] = [op |-> "run_client", val |-> TRUE]]
    /\ arg' = [arg EXCEPT ![c] = NoArg]
    /\ UNCHANGED <<join_handle, cur, took, awaiting, crashed, nextId, taskVars>>
    /\ UNCHANGED envVars

\* gui.rs:134-137  install the RunnerInstance and the JoinHandle, return true
RcInstall(c) ==
    /\ ~crashed
    /\ pc[c] = "rc_install"
    /\ runner_instance' = cur[c]
    /\ join_handle' = cur[c]
    /\ rlock' = "free"
    /\ jlock' = "free"
    /\ pc' = [pc EXCEPT ![c] = "idle"]
    /\ ret' = [ret EXCEPT ![c] = [op |-> "run_client", val |-> TRUE]]
    /\ arg' = [arg EXCEPT ![c] = NoArg]
    /\ UNCHANGED <<cur, took, awaiting, crashed, nextId, taskVars>>
    /\ UNCHANGED envVars

\* ------------------------------------------------------------------ terminate
\* gui.rs:146  runner_instance.lock().await
TmLockRunner(c) ==
    /\ ~crashed
    /\ c \in cap.callers
    /\ pc[c] = "idle"
    /\ rlock = "free"
    /\ rlock' = c
    /\ pc' = [pc EXCEPT ![c] = "tm_take"]
    /\ took' = [took EXCEPT ![c] = None]
    /\ awaiting' = [awaiting EXCEPT ![c] = None]
    /\ UNCHANGED <<runner_instance, join_handle, jlock, arg, cur, ret,
                   crashed, nextId, taskVars>>
    /\ UNCHANGED envVars

\* oneshot::Sender::send: delivered iff the receiver is still alive.
SendDelivers(s) == rxAlive[s]

\* gui.rs:148-152  lck.take(); on Some, inst.terminator.send(()).unwrap(); drop the guard
TmTake(c) ==
    /\ ~crashed
    /\ pc[c] = "tm_take"
    /\ runner_instance' = None
    /\ rlock' = "free"
    /\ took' = [took EXCEPT ![c] = runner_instance]
    /\ IF runner_instance = None
       THEN /\ pc' = [pc EXCEPT ![c] = "tm_lock_join"]
            /\ UNCHANGED <<crashed, txState, sent>>
       ELSE LET s == runner_instance IN
            IF SendDelivers(s)
            THEN /\ sent' = [sent EXCEPT ![s] = @ + 1]
                 /\ txState' = [txState EXCEPT ![s] = "sent"]
                 /\ pc' = [pc EXCEPT ![c] = "tm_lock_join"]
                 /\ UNCHANGED crashed
            ELSE \* send returns Err(()): unwrap panics inside the script handler
                 /\ txState' = [txState EXCEPT ![s] = "sendfail"]
                 /\ pc' = [pc EXCEPT ![c] = "panicked"]
                 /\ crashed' = TRUE
                 /\ UNCHANGED sent
    /\ UNCHANGED <<join_handle, jlock, arg, cur, awaiting, ret, nextId,
                   taskPc, reqBuild, launching_parameter,
                   fetched, launchRes, rxAlive, errLog, finCalls>>
    /\ UNCHANGED envVars

\* gui.rs:154  join_handle.lock().await.take().unwrap(): panics on None
TmTakeHandle(c) ==
    /\ ~crashed
    /\ pc[c] = "tm_lock_join"
    /\ jlock = "free"
    /\ IF join_handle = None
       THEN /\ pc' = [pc EXCEPT ![c] = "panicked"]
            /\ crashed' = TRUE
            /\ UNCHANGED <<join_handle, jlock, awaiting>>
       ELSE /\ awaiting' = [awaiting EXCEPT ![c] = join_handle]
            /\ join_handle' = None
            /\ jlock' = c
            /\ pc' = [pc EXCEPT ![c] = "tm_await"]
            /\ UNCHANGED crashed
    /\ UNCHANGED <<runner_instance, rlock, arg, cur, took, ret, nextId, taskVars>>
    /\ UNCHANGED envVars

\* gui.rs:154-157  (JoinHandle).await.unwrap(): resumes when the task has ended;
\* a JoinError (the task panicked) makes unwrap panic; otherwise return true
TmJoin(c) ==
    /\ ~crashed
    /\ pc[c] = "tm_await"
    /\ Ended(awaiting[c])
    /\ jlock' = "free"
    /\ IF taskPc[awaiting[c]] = "panicked"
       THEN /\ pc' = [pc EXCEPT ![c] = "panicked"]
            /\ crashed' = TRUE
            /\ UNCHANGED ret
       ELSE /\ pc' = [pc EXCEPT ![c] = "idle"]
            /\ ret' = [ret EXCEPT ![c] = [op |-> "terminate", val |-> TRUE]]
            /\ UNCHANGED crashed
    /\ UNCHANGED <<runner_instance, join_handle, rlock, arg, cur, took, awaiting,
                   nextId, taskVars>>
    /\ UNCHANGED envVars

\* ------------------------------------------------------------------ session task
\* gui.rs:99-105  load_all_builds failed: on_error(err.to_string()); return
TaskFetchErr(s, cbOk) ==
    /\ ~crashed
    /\ taskPc[s] = "fetch"
    /\ fetched' = [fetched EXCEPT ![s] = [st |-> "err", builds |-> <<>>]]
    /\ errLog' = [errLog EXCEPT ![s] = Append(@, CatalogErrText)]
    /\ taskPc' = [taskPc EXCEPT ![s] = AfterCall(cbOk, "done")]
    /\ rxAlive' = [rxAlive EXCEPT ![s] = FALSE]
    /\ UNCHANGED <<runner_instance, join_handle, rlock, jlock, callVars, crashed, nextId,
                   reqBuild, launching_parameter,
                   launchRes, txState, sent, finCalls>>
    /\ UNCHANGED envVars

\* gui.rs:106-112  what the task does with the fetched list: the pc it goes to,
\* the message it reports (if any) and whether the receiver survives
Lookup(builds, id, cbOk) ==
    IF FindBuild(builds, id) # 0
    THEN [pc |-> "launch", msg |-> <<>>, rx |-> TRUE]
    ELSE [pc |-> AfterCall(cbOk, "done"), msg |-> <<NotFoundText>>, rx |-> FALSE]

\* gui.rs:99-125  load_all_builds succeeded; look the build up; enter the launch procedure
TaskFetchOk(s, builds, cbOk) ==
    /\ ~crashed
    /\ taskPc[s] = "fetch"
    /\ fetched' = [fetched EXCEPT ![s] = [st |-> "ok", builds |-> builds]]
    /\ LET r == Lookup(builds, reqBuild[s], cbOk) IN
        /\ taskPc' = [taskPc EXCEPT ![s] = r.pc]
        /\ errLog' = [errLog EXCEPT ![s] = @ \o r.msg]
        /\ rxAlive' = [rxAlive EXCEPT ![s] = r.rx]
    /\ UNCHANGED <<runner_instance, join_handle, rlock, jlock, callVars, crashed, nextId,
                   reqBuild, launching_parameter,
                   launchRes, txState, sent, finCalls>>
    /\ UNCHANGED envVars

\* gui.rs:114-127  the launch procedure returns res; on Err, on_error(err.to_string())
TaskLaunchReturn(s, res, cbOk) ==
    /\ ~crashed
    /\ taskPc[s] = "launch"
    /\ launchRes' = [launchRes EXCEPT ![s] = res]
    /\ rxAlive' = [rxAlive EXCEPT ![s] = FALSE]
    /\ IF res = "Err"
       THEN /\ errLog' = [errLog EXCEPT ![s] = Append(@, LaunchErrText)]
            /\ taskPc' = [taskPc EXCEPT ![s] = AfterCall(cbOk, "clear")]
       ELSE /\ taskPc' = [taskPc EXCEPT ![s] = "clear"]
            /\ UNCHANGED errLog
    /\ UNCHANGED <<runner_instance, join_handle, rlock, jlock, callVars, crashed, nextId,
                   reqBuild, launching_parameter,
                   fetched, txState, sent, finCalls>>
    /\ UNCHANGED envVars

\* gui.rs:129  { *runner_instance_clone.lock().await = None; }
TaskClear(s) ==
    /\ ~crashed
    /\ taskPc[s] = "clear"
    /\ rlock = "free"
    /\ runner_instance' = None
    /\ txState' = IF runner_instance # None
                  THEN [txState EXCEPT ![runner_instance] = "dropped"]
                  ELSE txState
    /\ taskPc' = [taskPc EXCEPT ![s] = "finalize"]
    /\ UNCHANGED <<join_handle, rlock, jlock, callVars, crashed, nextId,
                   reqBuild, launching_parameter,
                   fetched, launchRes, rxAlive, sent, errLog, finCalls>>
    /\ UNCHANGED envVars

\* gui.rs:131  on_finalization.call(...).unwrap()
TaskFinalize(s, cbOk) ==
    /\ ~crashed
    /\ taskPc[s] = "finalize"
    /\ finCalls' = [finCalls EXCEPT ![s] = @ + 1]
    /\ taskPc' = [taskPc EXCEPT ![s] = AfterCall(cbOk, "done")]
    /\ UNCHANGED <<runner_instance, join_handle, rlock, jlock, callVars, crashed, nextId,
                   reqBuild, launching_parameter,
                   fetched, launchRes, rxAlive, txState, sent, errLog>>
    /\ UNCHANGED envVars

Next ==
    \/ \E c \in Callers, b \in BuildIds, a \in cap.accounts : RcLockRunner(c, b, a)
    \/ \E c \in Callers : RcLockJoin(c)
    \/ \E c \in Callers : RcAlreadyRunning(c)
    \/ \E c \in Callers : RcSpawn(c)
    \/ \E c \in Callers : RcInstall(c)
    \/ \E c \in Callers : TmLockRunner(c)
    \/ \E c \in Callers : TmTake(c)
    \/ \E c \in Callers : TmTakeHandle(c)
    \/ \E c \in Callers : TmJoin(c)
    \/ \E s \in Sessions, cbOk \in BOOLEAN : TaskFetchErr(s, cbOk)
    \/ \E s \in Sessions, builds \in BuildLists, cbOk \in BOOLEAN : TaskFetchOk(s, builds, cbOk)
    \/ \E s \in Sessions, res \in {"Ok", "Err"}, cbOk \in BOOLEAN : TaskLaunchReturn(s, res, cbOk)
    \/ \E s \in Sessions : TaskClear(s)
    \/ \E s \in Sessions, cbOk \in BOOLEAN : TaskFinalize(s, cbOk)

Spec == Init /\ [][Next]_vars

\* ------------------------------------------------------------------ queries
\* What the remote side may answer (Result<T>): the catalog to load_branches
\* and load_builds (cloud.rs:13-23), the auth service to authenticate.
Ok(v) == [ok |-> TRUE, val |-> v, err |-> ""]
Err(e) == [ok |-> FALSE, val |-> <<>>, err |-> e]
AuthErrText == "auth error"
BranchesResults == {Ok(<<"nightly", "stable">>), Err(CatalogErrText)}
BuildsResults == {Ok(<<Build(9), Build(7)>>), Err(CatalogErrText)}
LoginResults == {Ok([username |-> "u", id |-> "uuid-1"]), Err(AuthErrText)}
Branches == {"nightly"}
Usernames == {"u"}
Passwords == {"p"}

\* sciter values: an array (Value::from_iter), a parsed JSON object.
RECURSIVE Collect(_)
Collect(items) ==
    IF items = <<>> THEN <<>> ELSE <<Head(items)>> \o Collect(Tail(items))
ValueFromIter(items) == [t |-> "array", items |-> Collect(items)]
RECURSIVE StrValues(_)
StrValues(strs) ==
    IF strs = <<>> THEN <<>> ELSE <<StrValue(Head(strs))>> \o StrValues(Tail(strs))

\* serde_json::to_string: the object's fields in declaration order; Value::parse
\* reads them back into a map value.
BuildToJson(b) == <<<<"build_id", b.build_id>>, <<"branch", b.branch>>>>
AccountToJson(a) == <<<<"username", a.username>>, <<"id", a.id>>>>
ValueParse(json) == [t |-> "map", fields |-> json]
RECURSIVE BuildValues(_)
BuildValues(builds) ==
    IF builds = <<>> THEN <<>>
    ELSE <<ValueParse(BuildToJson(Head(builds)))>> \o BuildValues(Tail(builds))

NewQuery(kind) ==
    [kind |-> kind, pc |-> "pending", res |-> Err(""), resp |-> <<>>, errs |-> <<>>]

\* The handler's part of a request: spawn the task and return true.
SpawnQuery(c, kind) ==
    /\ ~crashed
    /\ c \in cap.callers
    /\ pc[c] = "idle"
    /\ Len(queries) < cap.queries
    /\ queries' = Append(queries, NewQuery(kind))
    /\ ret' = [ret EXCEPT ![c] = [op |-> "query", val |-> TRUE]]
    /\ UNCHANGED <<runner_instance, join_handle, rlock, jlock, pc, arg, cur, took,
                   awaiting, crashed, nextId, taskVars, bridge, emits,
                   mod_source, paths, cap>>

\* gui.rs:161-176
GetBranches(c) == SpawnQuery(c, "branches")

\* gui.rs:178-197
GetBuilds(c, branch) == SpawnQuery(c, "builds")

\* gui.rs:199-214
LoginMojang(c, username, password) == SpawnQuery(c, "login")

\* The match of a spawned request task: on Ok call on_response with the
\* converted value, on Err call on_error with err.to_string(); unwrap the call.
Answer(q, res, value, cbOk) ==
    [q EXCEPT !.res = res,
              !.resp = IF res.ok THEN Append(@, value) ELSE @,
              !.errs = IF res.ok THEN @ ELSE Append(@, res.err),
              !.pc = AfterCall(cbOk, "done")]

\* Faulty variant of BranchesTask: the Err arm also calls on_response.
BranchesTaskBothCallbacks(q, res, cbOk) ==
    [Answer(q, res, ValueFromIter(StrValues(res.val)), cbOk)
        EXCEPT !.resp = Append(q.resp, ValueFromIter(StrValues(res.val)))]

\* gui.rs:162-173
BranchesTask(q, res, cbOk) == Answer(q, res, ValueFromIter(StrValues(res.val)), cbOk)

\* gui.rs:179-194
BuildsTask(q, res, cbOk) == Answer(q, res, ValueFromIter(BuildValues(res.val)), cbOk)

\* gui.rs:200-211
LoginTask(q, res, cbOk) ==
    Answer(q, res, IF res.ok THEN ValueParse(AccountToJson(res.val)) ELSE <<>>, cbOk)

QueryStep(i, kind, after) ==
    /\ ~crashed
    /\ i \in 1..Len(queries)
    /\ queries[i].kind = kind
    /\ queries[i].pc = "pending"
    /\ queries' = [queries EXCEPT ![i] = after]
    /\ UNCHANGED <<supVars, bridge, emits, mod_source, paths, cap>>

BranchesReply(i, res, cbOk) == QueryStep(i, "branches", BranchesTask(queries[i], res, cbOk))
BuildsReply(i, res, cbOk) == QueryStep(i, "builds", BuildsTask(queries[i], res, cbOk))
LoginReply(i, res, cbOk) == QueryStep(i, "login", LoginTask(queries[i], res, cbOk))

NextQueries ==
    \/ Next
    \/ \E c \in Callers : GetBranches(c)
    \/ \E c \in Callers, branch \in Branches : GetBuilds(c, branch)
    \/ \E c \in Callers, u \in Usernames, p \in Passwords : LoginMojang(c, u, p)
    \/ \E i \in 1..MaxQueries, res \in BranchesResults, cbOk \in BOOLEAN : BranchesReply(i, res, cbOk)
    \/ \E i \in 1..MaxQueries, res \in BuildsResults, cbOk \in BOOLEAN : BuildsReply(i, res, cbOk)
    \/ \E i \in 1..MaxQueries, res \in LoginResults, cbOk \in BOOLEAN : LoginReply(i, res, cbOk)

\* The requests beside one session.
InitQueries == InitWith(Lim(1, MaxQueries, 0))

SpecQueries == InitQueries /\ [][NextQueries]_vars

\* ------------------------------------------------------------------ EventBridge
\* Byte strings the launch procedure may emit: "hi", "e-acute" (two bytes),
\* and 'h' followed by 0xFF, which is not UTF-8.
OutputBytes == {<<104, 105>>, <<195, 169>>, <<104, 255>>}

\* String::from_utf8: the width of the sequence a lead byte opens (0: no lead byte).
Utf8Width(b) ==
    IF b < 128 THEN 1
    ELSE IF b >= 194 /\ b <= 223 THEN 2
    ELSE IF b >= 224 /\ b <= 239 THEN 3
    ELSE IF b >= 240 /\ b <= 244 THEN 4
    ELSE 0

IsCont(b) == b >= 128 /\ b <= 191

\* The bytes after the lead byte at i are continuation bytes, and the sequence
\* is neither overlong, a surrogate, nor beyond U+10FFFF.
Utf8TailOk(bytes, i, w) ==
    /\ \A k \in 1..(w - 1) : IsCont(bytes[i + k])
    /\ bytes[i] = 224 => bytes[i + 1] >= 160
    /\ bytes[i] = 237 => bytes[i + 1] <= 159
    /\ bytes[i] = 240 => bytes[i + 1] >= 144
    /\ bytes[i] = 244 => bytes[i + 1] <= 143

Utf8CodePoint(bytes, i, w) ==
    CASE w = 1 -> bytes[i]
      [] w = 2 -> (bytes[i] - 192) * 64 + (bytes[i + 1] - 128)
      [] w = 3 -> (bytes[i] - 224) * 4096 + (bytes[i + 1] - 128) * 64 + (bytes[i + 2] - 128)
      [] w = 4 -> (bytes[i] - 240) * 262144 + (bytes[i + 1] - 128) * 4096
                  + (bytes[i + 2] - 128) * 64 + (bytes[i + 3] - 128)

RECURSIVE Utf8From(_, _)
Utf8From(bytes, i) ==
    IF i > Len(bytes) THEN [ok |-> TRUE, text |-> <<>>]
    ELSE LET w == Utf8Width(bytes[i]) IN
         IF w = 0 \/ i + w - 1 > Len(bytes) THEN [ok |-> FALSE, text |-> <<>>]
         ELSE IF ~Utf8TailOk(bytes, i, w) THEN [ok |-> FALSE, text |-> <<>>]
         ELSE LET rest == Utf8From(bytes, i + w) IN
              IF rest.ok
              THEN [ok |-> TRUE, text |-> <<Utf8CodePoint(bytes, i, w)>> \o rest.text]
              ELSE rest

\* String::from_utf8(data.to_vec()): Ok(text as code points) or Err
FromUtf8(bytes) == Utf8From(bytes, 1)

\* gui.rs:47 / 53  value.lock().unwrap() panics on a poisoned mutex; then
\* from_utf8(..).unwrap() panics while the guard is held, which poisons it;
\* then on_output.call(tag, text), whose Err is returned with `?`.
HandleOutput(tag, b, data, cbOk) ==
    IF b.poisoned THEN [bridge |-> b, res |-> "panic"]
    ELSE LET d == FromUtf8(data) IN
         IF ~d.ok THEN [bridge |-> [b EXCEPT !.poisoned = TRUE], res |-> "panic"]
         ELSE [bridge |-> [b EXCEPT !.out = Append(@, <<tag, d.text>>)],
               res |-> IF cbOk THEN "Ok" ELSE "Err"]

\* gui.rs:46-50
handle_stdout(b, data, cbOk) == HandleOutput("stdout", b, data, cbOk)

\* gui.rs:52-56
handle_stderr(b, data, cbOk) == HandleOutput("stderr", b, data, cbOk)

\* ProgressUpdate values; a count is an unsigned 64-bit number kept as
\* hi * 2^31 + lo with 0 <= lo < 2^31.
U64(hi, lo) == [hi |-> hi, lo |-> lo]
SetMax(n) == [kind |-> "SetMax", n |-> n, s |-> ""]
SetProgress(n) == [kind |-> "SetProgress", n |-> n, s |-> ""]
SetLabel(s) == [kind |-> "SetLabel", n |-> U64(0, 0), s |-> s]
ProgressUpdates ==
    {SetMax(U64(0, 10)), SetMax(U64(1, 0)), SetProgress(U64(0, 3)), SetLabel("Downloading")}

\* `as i32`: the low 32 bits, read as a signed number.
AsI32(n) == IF n.hi % 2 = 1 THEN (n.lo - 2147483647) - 1 ELSE n.lo

\* gui.rs:61-65  the arguments on_progress is called with
ProgressArgs(u) ==
    CASE u.kind = "SetMax" -> [name |-> "max", int |-> AsI32(u.n), str |-> ""]
      [] u.kind = "SetProgress" -> [name |-> "progress", int |-> AsI32(u.n), str |-> ""]
      [] u.kind = "SetLabel" -> [name |-> "label", int |-> 0, str |-> u.s]

\* gui.rs:58-68
handle_progress(b, update, cbOk) ==
    IF b.poisoned THEN [bridge |-> b, res |-> "panic"]
    ELSE [bridge |-> [b EXCEPT !.prog = Append(@, ProgressArgs(update))],
          res |-> IF cbOk THEN "Ok" ELSE "Err"]

\* The launch procedure of session s makes one emission, the call `call`, with
\* outcome r. A panic of the emission unwinds into the session task when the
\* emission was made on it (unwinds), and ends only the emitting context
\* otherwise.
Emit(s, call, r, unwinds) ==
    /\ ~crashed
    /\ taskPc[s] = "launch"
    /\ emits[s].n < cap.emits
    /\ bridge' = [bridge EXCEPT ![s] = r.bridge]
    /\ emits' = [emits EXCEPT ![s] = [n |-> @.n + 1, last |-> r.res, call |-> call]]
    /\ IF r.res = "panic" /\ unwinds
       THEN /\ taskPc' = [taskPc EXCEPT ![s] = "panicked"]
            /\ rxAlive' = [rxAlive EXCEPT ![s] = FALSE]
       ELSE UNCHANGED <<taskPc, rxAlive>>
    /\ UNCHANGED <<runner_instance, join_handle, rlock, jlock, callVars, crashed, nextId,
                   reqBuild, launching_parameter,
                   fetched, launchRes, txState, sent, errLog, finCalls,
                   queries, mod_source, paths, cap>>

EmitStdout(s, data, cbOk, unwinds) ==
    Emit(s, [op |-> "stdout", data |-> data, n |-> U64(0, 0)],
         handle_stdout(bridge[s], data, cbOk), unwinds)
EmitStderr(s, data, cbOk, unwinds) ==
    Emit(s, [op |-> "stderr", data |-> data, n |-> U64(0, 0)],
         handle_stderr(bridge[s], data, cbOk), unwinds)
EmitProgress(s, update, cbOk, unwinds) ==
    Emit(s, [op |-> update.kind, data |-> <<>>, n |-> update.n],
         handle_progress(bridge[s], update, cbOk), unwinds)

NextBridge ==
    \/ Next
    \/ \E s \in Sessions, data \in OutputBytes, cbOk \in BOOLEAN, unwinds \in BOOLEAN :
            EmitStdout(s, data, cbOk, unwinds)
    \/ \E s \in Sessions, data \in OutputBytes, cbOk \in BOOLEAN, unwinds \in BOOLEAN :
            EmitStderr(s, data, cbOk, unwinds)
    \/ \E s \in Sessions, update \in ProgressUpdates, cbOk \in BOOLEAN, unwinds \in BOOLEAN :
            EmitProgress(s, update, cbOk, unwinds)

\* The emissions of one session's launch procedure.
InitBridge == InitWith(Lim(1, 0, MaxEmits))

SpecBridge == InitBridge /\ [][NextBridge]_vars

\* ------------------------------------------------------------------ scheduling
\* The runtime keeps running a spawned task and a handler call that has begun:
\* every step of a call after its first is taken when it stays possible, the
\* catalog fetch returns, the task's clear and finalization are taken, and the
\* launch procedure returns once the cancellation signal has been sent.
CallFairness ==
    \A c \in Callers :
        /\ WF_vars(RcLockJoin(c))
        /\ WF_vars(RcAlreadyRunning(c))
        /\ WF_vars(RcSpawn(c))
        /\ WF_vars(RcInstall(c))
        /\ WF_vars(TmTake(c))
        /\ WF_vars(TmTakeHandle(c))
        /\ WF_vars(TmJoin(c))

TaskFairness ==
    \A s \in Sessions :
        /\ WF_vars(\/ \E cbOk \in BOOLEAN : TaskFetchErr(s, cbOk)
                   \/ \E builds \in BuildLists, cbOk \in BOOLEAN : TaskFetchOk(s, builds, cbOk))
        /\ WF_vars(sent[s] = 1 /\ \E res \in {"Ok", "Err"}, cbOk \in BOOLEAN :
                                    TaskLaunchReturn(s, res, cbOk))
        /\ WF_vars(TaskClear(s))
        /\ WF_vars(\E cbOk \in BOOLEAN : TaskFinalize(s, cbOk))

SpecFair == Init /\ [][Next]_vars /\ CallFairness /\ TaskFairness

\* ------------------------------------------------------------------ overlapping calls
\* Two contexts call run_client and terminate, so that a call may start while
\* another one is in progress.
InitConc == InitWith([Lim(MaxSessions, 0, 0) EXCEPT !.callers = Callers])

SpecConc == InitConc /\ [][Next]_vars

\* ------------------------------------------------------------------ ModSource paths
\* str::split(sep): the pieces of text between the separators.
RECURSIVE SplitFrom(_, _, _)
SplitFrom(text, sep, piece) ==
    IF text = <<>> THEN <<piece>>
    ELSE IF Head(text) = sep THEN <<piece>> \o SplitFrom(Tail(text), sep, <<>>)
    ELSE SplitFrom(Tail(text), sep, Append(piece, Head(text)))
Split(text, sep) == SplitFrom(text, sep, <<>>)

\* str::replace(from, to) for single characters.
Replace(text, from, to) ==
    [i \in 1..Len(text) |-> IF text[i] = from THEN to ELSE text[i]]

MalformedText == "malformed artifact coordinate"

\* utils::get_maven_artifact_path: group:artifact:version becomes
\* group/artifact/version/artifact-version.jar, the dots of the group being
\* slashes; any other number of segments is an error.
get_maven_artifact_path(artifact) ==
    LET split == Split(artifact, ":") IN
    IF Len(split) # 3 THEN Err(MalformedText)
    ELSE Ok(Replace(split[1], ".", "/") \o <<"/">> \o split[2] \o <<"/">> \o split[3]
            \o <<"/">> \o split[2] \o <<"-">> \o split[3] \o <<".", "j", "a", "r">>)

\* Faulty variant of get_path: the path of a Repository source is placed under
\* the repository name and that of a SkipAd source is named after its url.
get_path_by_location(source) ==
    IF source.kind = "SkipAd" THEN Ok(source.url \o <<".", "j", "a", "r">>)
    ELSE LET r == get_maven_artifact_path(source.artifact) IN
         IF r.ok THEN Ok(source.repository \o <<"/">> \o r.val) ELSE r

\* cloud.rs:65-74
get_path(source) ==
    IF source.kind = "SkipAd" THEN Ok(source.artifact_name \o <<".", "j", "a", "r">>)
    ELSE get_maven_artifact_path(source.artifact)

\* One more resolution of mod_source.
ResolvePath ==
    /\ Len(paths) < cap.resolves
    /\ paths' = Append(paths, get_path(mod_source))
    /\ UNCHANGED <<supVars, queries, bridge, emits, mod_source, cap>>

NextPath == ResolvePath

\* Every ModSource, resolved up to MaxResolves times.
InitPath == InitWith([Lim(0, 0, 0) EXCEPT !.mods = ModSources, !.resolves = MaxResolves])

SpecPath == InitPath /\ [][NextPath]_vars

\* ------------------------------------------------------------------ account data
\* One session started with every account_data: each identity field absent,
\* a string, or a number.
InitParams == InitWith([Lim(1, 0, 0) EXCEPT !.accounts = AccountDatas])

SpecParams == InitParams /\ [][Next]_vars

\* ------------------------------------------------------------------ claims
\* A caller c takes a step of its handler.
Steps(c) == pc'[c] # pc[c]

\* terminate has returned to caller c after taking the RunnerInstance of a session.
TerminateReturned(c) ==
    pc[c] = "idle" /\ ret[c].op = "terminate" /\ took[c] # None

\* The task of session s looked its build up in a fetched list that lacks it.
BuildAbsent(s) ==
    fetched[s].st = "ok" /\ FindBuild(fetched[s].builds, reqBuild[s]) = 0

\* C1: a run_client call that finds the slot occupied returns true and changes
\* neither the slot, the task handle, the channels, the tasks nor any callback
\* log; at most one live cancellation sender (RunnerInstance) exists at any time.
C1_StartWhileActiveIsNoOp ==
    /\ [](Cardinality({s \in Sessions : txState[s] = "live"}) <= 1)
    /\ [][\A c \in Callers :
            (pc[c] = "rc_check" /\ Steps(c) /\ runner_instance # None)
            => /\ pc'[c] = "idle"
               /\ ret'[c] = [op |-> "run_client", val |-> TRUE]
               /\ ~crashed'
               /\ UNCHANGED <<runner_instance, join_handle, nextId, taskVars>>]_vars

\* A second run_client call has returned while the first session still holds the slot.
C1_Witness ==
    \E c \in Callers :
        /\ pc[c] = "idle" /\ ret[c].op = "run_client" /\ cur[c] = None
        /\ runner_instance # None /\ nextId = 1

\* C2: terminate() called with an empty slot never panics (it returns normally).
C2_TerminateIdleIsSafe ==
    \A c \in Callers : took[c] = None => pc[c] # "panicked"

\* C3: once terminate() has returned after taking a session, the slot is empty
\* and no background task is in flight.
C3_IdleAfterTerminate ==
    \A c \in Callers :
        TerminateReturned(c)
        => /\ runner_instance = None
           /\ \A s \in Sessions : taskPc[s] \in {"none", "done", "panicked"}

\* C4: when the requested build is absent from the fetched list and the task
\* has ended, on_error was invoked once with "unable to find build", the launch
\* procedure was never invoked and the slot no longer holds the session.
C4_BuildNotFoundLeavesIdle ==
    \A s \in Sessions :
        (BuildAbsent(s) /\ Ended(s) /\ \A c \in Callers : pc[c] = "idle")
        => /\ errLog[s] = <<NotFoundText>>
           /\ launchRes[s] = "none"
           /\ runner_instance # s

\* C5: every session whose task has ended has left the slot and fired the
\* finalization callback exactly once, with exactly one error report on failure.
C5_EverySessionFinalized ==
    \A s \in Sessions :
        (Ended(s) /\ \A c \in Callers : pc[c] = "idle")
        => /\ runner_instance # s
           /\ finCalls[s] = 1
           /\ (fetched[s].st = "err" \/ BuildAbsent(s) \/ launchRes[s] = "Err")
              => Len(errLog[s]) = 1

\* C6: once the launch procedure has returned and the task has ended, the slot
\* was cleared, on_finalization fired exactly once, and on_error fired exactly
\* once iff the launch procedure returned Err.
C6_LaunchOutcomeFinalized ==
    \A s \in Sessions :
        (launchRes[s] # "none" /\ Ended(s))
        => /\ runner_instance # s
           /\ finCalls[s] = 1
           /\ Len(errLog[s]) = (IF launchRes[s] = "Err" THEN 1 ELSE 0)

\* C7: when terminate() returns after taking a session, the signal was sent
\* exactly once, the session's task has completed and its finalization callback
\* has fired exactly once.
C7_TerminateDrainsSession ==
    \A c \in Callers :
        TerminateReturned(c)
        => /\ sent[took[c]] = 1
           /\ taskPc[took[c]] = "done"
           /\ finCalls[took[c]] = 1

\* C8: a session cancelled by terminate() is never reported through on_error,
\* and once its task has ended on_finalization has fired exactly once.
C8_CancelledNotReported ==
    \A s \in Sessions :
        sent[s] > 0
        => /\ errLog[s] = <<>>
           /\ Ended(s) => finCalls[s] = 1

\* What on_response must receive for the answer stored in request q.
ExpectedResponse(q) ==
    CASE q.kind = "branches" ->
            [t |-> "array",
             items |-> [k \in 1..Len(q.res.val) |-> [t |-> "string", v |-> q.res.val[k]]]]
      [] q.kind = "builds" ->
            [t |-> "array",
             items |-> [k \in 1..Len(q.res.val) |->
                          [t |-> "map",
                           fields |-> <<<<"build_id", q.res.val[k].build_id>>,
                                        <<"branch", q.res.val[k].branch>>>>]]]
      [] q.kind = "login" ->
            [t |-> "map",
             fields |-> <<<<"username", q.res.val.username>>, <<"id", q.res.val.id>>>>]

\* C9: a request that has been answered has invoked exactly one callback, once:
\* on_response with the converted result (branches in catalog order) on Ok,
\* on_error with the error text on Err; a pending one has invoked none; and no
\* step of a request changes the slot, the task handle, their locks or a session.
C9_QueryCallsOneCallback ==
    /\ [](\A i \in 1..Len(queries) :
            LET q == queries[i] IN
            /\ q.pc = "pending" => (q.resp = <<>> /\ q.errs = <<>>)
            /\ q.pc # "pending" =>
                 IF q.res.ok
                 THEN q.errs = <<>> /\ q.resp = <<ExpectedResponse(q)>>
                 ELSE q.resp = <<>> /\ q.errs = <<q.res.err>>)
    /\ [][queries' # queries =>
            UNCHANGED <<runner_instance, join_handle, rlock, jlock, nextId, taskVars>>]_vars

\* get_branches was answered ["nightly", "stable"] while a session holds the slot.
C9_Witness ==
    /\ runner_instance # None
    /\ \E i \in 1..Len(queries) :
        /\ queries[i].kind = "branches" /\ queries[i].pc = "done"
        /\ queries[i].errs = <<>>
        /\ queries[i].resp = <<[t |-> "array",
                               items |-> <<StrValue("nightly"), StrValue("stable")>>]>>

\* C10: no emission through the EventBridge panics (invalid UTF-8 is reported
\* to the caller as an error), and the bridge stays usable for later emissions.
C10_InvalidUtf8NonFatal ==
    \A s \in Sessions : emits[s].last # "panic" /\ ~bridge[s].poisoned


\* C11: every emission makes exactly one callback invocation, with the payload of
\* its kind: output is delivered as (stream tag, the text of the bytes) and a
\* count as (name, the count as a number).
C11_EmissionIsOneCallbackCall ==
    \A s \in Sessions :
        LET e == emits[s]
            b == bridge[s]
        IN  /\ Len(b.out) + Len(b.prog) = e.n
            /\ e.call.op \in {"stdout", "stderr"} =>
                    /\ b.out # <<>>
                    /\ b.out[Len(b.out)][1] = e.call.op
            /\ e.call.op \in {"SetMax", "SetProgress"} =>
                    /\ b.prog # <<>>
                    /\ b.prog[Len(b.prog)].name =
                            (IF e.call.op = "SetMax" THEN "max" ELSE "progress")
                    /\ e.call.n.hi = 0
                    /\ b.prog[Len(b.prog)].int = e.call.n.lo

\* The fallback of each identity field, and the LaunchingParameter field it fills.
Fallback ==
    [username |-> "unexpected", id |-> "069a79f4-44e9-4726-a5be-fca90e38aaf5",
     accessToken |-> "-", type |-> "legacy"]
ParamOf(lp) ==
    [username |-> lp.auth_player_name, id |-> lp.auth_uuid,
     accessToken |-> lp.auth_access_token, type |-> lp.user_type]

\* C12 as stated: the session created by a start carries the supplied value for
\* each identity field present in account_data and the fallback for each absent
\* one.
C12_PresentFieldsCarried ==
    \A c \in Callers :
        pc[c] = "rc_install" =>
            \A f \in IdentityFields :
                LET a == arg[c].account_data
                    got == ParamOf(launching_parameter[cur[c]])[f]
                IN  IF f \in DOMAIN a THEN StrValue(got) = a[f] ELSE got = Fallback[f]

\* C12: a start whose slot is empty creates the session whatever account_data
\* holds, and the session carries the supplied value for each identity field
\* present as a string and the fallback for each field absent or not a string.
C12_StringFieldsCarried ==
    \A c \in Callers :
        /\ (pc[c] = "rc_check" /\ runner_instance = None /\ ~crashed) => ENABLED RcSpawn(c)
        /\ pc[c] = "rc_install" =>
            /\ taskPc[cur[c]] # "none"
            /\ \A f \in IdentityFields :
                LET a == arg[c].account_data
                    got == ParamOf(launching_parameter[cur[c]])[f]
                IN  IF f \in DOMAIN a /\ a[f].t = "string"
                    THEN got = a[f].v
                    ELSE got = Fallback[f]

\* A session was created from account_data with username absent, id a number
\* and accessToken a string.
C12_Witness ==
    \E c \in Callers :
        /\ pc[c] = "rc_install"
        /\ DOMAIN arg[c].account_data = {"id", "accessToken"}
        /\ arg[c].account_data["id"].t = "int"
        /\ arg[c].account_data["accessToken"].t = "string"
        /\ launching_parameter[cur[c]].auth_access_token = Supplied.accessToken

\* C13: every resolution of a SkipAd source gives artifact_name followed by
\* ".jar", whatever its url and extract; every resolution of a Repository source
\* gives what the artifact coordinate alone determines (a path or an error),
\* whatever the repository; and two resolutions of one source agree.
C13_PathDependsOnNameOrArtifact ==
    /\ \A i \in DOMAIN paths :
            IF mod_source.kind = "SkipAd"
            THEN /\ paths[i].ok
                 /\ paths[i].val = mod_source.artifact_name \o <<".", "j", "a", "r">>
                 /\ \A u \in Urls, e \in BOOLEAN :
                        paths[i] = get_path(SkipAd(mod_source.artifact_name, u, e))
            ELSE /\ paths[i] = get_maven_artifact_path(mod_source.artifact)
                 /\ \A r \in Repositories :
                        paths[i] = get_path(Repository(r, mod_source.artifact))
    /\ \A i, j \in DOMAIN paths : paths[i] = paths[j]

\* The coordinate n.e:m:2.1 was resolved twice, to n/e/m/2.1/m-2.1.jar.
C13_Witness ==
    /\ mod_source.kind = "Repository"
    /\ mod_source.artifact = DottedCoordinate
    /\ Len(paths) = 2
    /\ paths[2] = Ok(<<"n", "/", "e", "/", "m", "/", "2", ".", "1", "/",
                       "m", "-", "2", ".", "1", ".", "j", "a", "r">>)

\* C14: a terminate that found the slot occupied never panics, wherever the
\* session's task is: not at the send of the cancellation signal and not at the
\* join of the task.
C14_TerminateOccupiedNeverCrashes ==
    \A c \in Callers : took[c] # None => pc[c] # "panicked"

\* C16: an error report whose delivery failed does not end the session's task:
\* the task does not die between its on_error call and its finalization.
C16_FailedErrorDeliveryNonFatal ==
    \A s \in Sessions :
        (Len(errLog[s]) > 0 /\ finCalls[s] = 0) => taskPc[s] # "panicked"

\* C17: the RunnerInstance of every session whose task has ended was consumed,
\* by terminate's take or by the task's clear, and the cancellation signal was
\* sent at most once, by the terminate that took it.
C17_RunnerInstanceConsumedOnce ==
    \A s \in Sessions :
        /\ sent[s] <= 1
        /\ sent[s] = 1 => txState[s] = "sent"
        /\ (Ended(s) /\ \A c \in Callers : pc[c] = "idle")
           => /\ runner_instance # s
              /\ txState[s] \in {"sent", "sendfail", "dropped"}

\* C18: at most one session task is alive (spawned and not ended) at any time.
C18_OneTaskAlive ==
    Cardinality({s \in Sessions : taskPc[s] \in {"fetch", "launch", "clear", "finalize"}}) <= 1

\* C19: whenever no run_client or terminate call is in progress and the slot is
\* occupied, join_handle holds the JoinHandle of the task of the session in the
\* slot.
C19_HandleMatchesSlot ==
    ((\A c \in Callers : pc[c] = "idle") /\ runner_instance # None)
        => join_handle = runner_instance

\* The second session is in the slot with its own handle, outside any call,
\* after the first session was terminated.
C19_Witness ==
    /\ \A c \in Callers : pc[c] = "idle"
    /\ runner_instance = 2
    /\ join_handle = 2
    /\ txState[1] = "sent"

C20_TerminateEventuallyReturns ==
    \A c \in Callers :
        (pc[c] = "tm_lock_join" /\ took[c] # None) ~> (pc[c] = "idle")

====
